---- MODULE Spec2Model ----
(***************************************************************************)
(* A model of the NES CPU core of src/src/core/CPU.js: its registers,     *)
(* flags, stack, interrupt latch and stall counter, the bus dispatch of    *)
(* read8/write8, and tick().  The CPU object is the record `cpu`; every    *)
(* method of the class is an operator from a CPU record to the CPU record  *)
(* the call leaves behind.  The collaborators whose code is not part of    *)
(* CPU.js (CPUMemory, the PPU, the mapper, the instruction, mode and       *)
(* opcode tables) are modelled from their description in spec.md and are   *)
(* marked so where they are defined.                                       *)
(***************************************************************************)
EXTENDS Integers, Sequences, FiniteSets, TLC

VARIABLES
    cpu,     \* the CPU object: its fields, and memory.stack as field `stack`
    rom,     \* the cartridge image the mapper serves (fixed after construction)
    last,    \* observation: the operation (and, for tick, the path) last taken
    arg,     \* observation: the argument of the last operation that took one
    sp0,     \* observation: sp before the first operation
    nops     \* observation: the operations counted against the bound of the run

vars == <<cpu, rom, last, arg, sp0, nops>>

(***************************************************************************)
(* Bounds of the model.                                                    *)
(***************************************************************************)
MaxCycles == 20      \* tick() executes no instruction or NMI past this count
MaxResets == 2       \* reset() calls in a run of the console
MaxOps == 4          \* length of the method sequences of SpecOps
NumPushes == 257     \* length of the push runs of SpecWrap
MaxPending == 1      \* SpecPublic calls stall() with at most this much stall left

Byte == 0..255
Bit == {0, 1}
Undefined == 0 - 1   \* JavaScript's undefined: what a read outside a peer's range yields

(***************************************************************************)
(* JavaScript's integer operators on the values the CPU uses.              *)
(***************************************************************************)
\* the operand of a bitwise operator: undefined counts as 0
ToInt(p) ==
    CHOOSE v \in {IF a = Undefined THEN 0 ELSE a : a \in {p}} : TRUE

RECURSIVE BitAndNat(_, _)
BitAndNat(p, q) ==
    IF p = 0 \/ q = 0 THEN 0
    ELSE (p % 2) * (q % 2) + 2 * BitAndNat(p \div 2, q \div 2)

BitAnd(p, q) ==
    CHOOSE v \in {BitAndNat(a, b) : a \in {ToInt(p)}, b \in {ToInt(q)}} : TRUE

RECURSIVE BitOrNat(_, _)
BitOrNat(p, q) ==
    IF p = 0 THEN q
    ELSE IF q = 0 THEN p
    ELSE (IF p % 2 = 1 \/ q % 2 = 1 THEN 1 ELSE 0) + 2 * BitOrNat(p \div 2, q \div 2)

BitOr(p, q) ==
    CHOOSE v \in {BitOrNat(a, b) : a \in {ToInt(p)}, b \in {ToInt(q)}} : TRUE

\* x & 0xFF, also for the negative x of ( sp - 1 ) & 0xFF (two's complement)
AndFF(p) == p % 256

\* x >> k and x << k
Shr(p, k) == ToInt(p) \div (2 ^ k)
Shl(p, k) == ToInt(p) * (2 ^ k)

\* x & ~mask for a non-negative x
AndNot(p, mask) ==
    CHOOSE v \in {a - BitAnd(a, mask) : a \in {p}} : TRUE

(***************************************************************************)
(* The cartridge.  The mapper's code is not part of CPU.js; spec.md 4.7    *)
(* gives its interface: read8(addr) and write8(addr, v) for addresses in   *)
(* $6000-$FFFF.  A cartridge image is a finite map from addresses to       *)
(* bytes; a ROM cell the image does not name reads 0 and a read outside    *)
(* the window yields undefined.                                            *)
(*                                                                         *)
(*   image 1          $8000 LDA #$02   $8002 STA $4014   $8005 NOP         *)
(*                    $8006 JMP $8000  $9000 RTI                           *)
(*                    reset -> $8000, NMI -> $9000                         *)
(*   images 2, 3, 4   $8D00 JMP $FFFD / $FFFE / $FFFF    $8D10 RTI         *)
(*                    $FFFD STA $EAA9  $FFFE LDA #$EA    $FFFF NOP         *)
(*                    reset -> $8D00, NMI -> $8D10                         *)
(*   image 5          $8000 LDX #$FF   $8002 STA $3F15,X (= $4014, a page  *)
(*                    crossed)         $8005 JMP $8000   $9000 RTI         *)
(*                    reset -> $8000, NMI -> $9000                         *)
(***************************************************************************)
Roms == 1..5

RomImage(r) ==
    IF r = 1
    THEN (\h8000 :> \hA9) @@ (\h8001 :> \h02)
      @@ (\h8002 :> \h8D) @@ (\h8003 :> \h14) @@ (\h8004 :> \h40)
      @@ (\h8005 :> \hEA)
      @@ (\h8006 :> \h4C) @@ (\h8007 :> \h00) @@ (\h8008 :> \h80)
      @@ (\h9000 :> \h40)
      @@ (\hFFFA :> \h00) @@ (\hFFFB :> \h90)
      @@ (\hFFFC :> \h00) @@ (\hFFFD :> \h80)
    ELSE IF r = 5
    THEN (\h8000 :> \hA2) @@ (\h8001 :> \hFF)
      @@ (\h8002 :> \h9D) @@ (\h8003 :> \h15) @@ (\h8004 :> \h3F)
      @@ (\h8005 :> \h4C) @@ (\h8006 :> \h00) @@ (\h8007 :> \h80)
      @@ (\h9000 :> \h40)
      @@ (\hFFFA :> \h00) @@ (\hFFFB :> \h90)
      @@ (\hFFFC :> \h00) @@ (\hFFFD :> \h80)
    ELSE (\h8D00 :> \h4C) @@ (\h8D01 :> \hFB + r) @@ (\h8D02 :> \hFF)
      @@ (\h8D10 :> \h40)
      @@ (\hFFFA :> \h10) @@ (\hFFFB :> \h8D)
      @@ (\hFFFC :> \h00) @@ (\hFFFD :> \h8D)
      @@ (\hFFFE :> \hA9) @@ (\hFFFF :> \hEA)

MapperRead8(r, addr) ==
    IF addr \in DOMAIN RomImage(r) THEN RomImage(r)[addr]
    ELSE IF addr \in \h6000..\hFFFF THEN 0
    ELSE Undefined

\* a peer reached by a write: `io` records, in order, the peer, the address
\* and the value of every write8 a peer received during the call in progress
Reached(m, peer, addr, value) ==
    [m EXCEPT !.io = Append(@, <<peer, addr, value>>)]

\* a write into ROM space changes nothing the CPU can read back
MapperWrite8(m, addr, value) == Reached(m, "mapper", addr, value)

(***************************************************************************)
(* CPUMemory (not part of CPU.js; spec.md 4.1): 2 KiB of RAM, addresses    *)
(* taken modulo 2048, with `stack` the 256-byte view of page $01.  The     *)
(* model keeps the stack page; the rest of RAM reads 0 and the modelled    *)
(* programs never write it.  A byte cell keeps the low 8 bits of a store.  *)
(***************************************************************************)
StackStore(value) == value % 256

RamRead8(m, addr) ==
    LET off == addr % 2048
    IN  IF off \in 256..511 THEN m.stack[off - 256] ELSE 0

RamWrite8(m, addr, value) ==
    LET off == addr % 2048
        m1 == Reached(m, "ram", addr, value)
    IN  IF off \in 256..511
        THEN [m1 EXCEPT !.stack[off - 256] = StackStore(value)]
        ELSE m1

(***************************************************************************)
(* The PPU, APU and controller as the CPU sees them (not part of CPU.js).  *)
(* Each PPU register reads a value of its own, so that two routes to the   *)
(* same register can be told from routes to different ones.                *)
(***************************************************************************)
PpuRead8(addr) == 64 + (addr % 32)

ApuRead8 == 0

ControllerRead8 == 0

(***************************************************************************)
(* stall(): CPU.js 78-84.                                                  *)
(***************************************************************************)
\* stall() as it would be if it set the counter instead of adding to it
Stall_Assigns(m) ==
    IF m.cycles % 2 = 1
    THEN [m EXCEPT !.stallCounter = 514]
    ELSE [m EXCEPT !.stallCounter = 513]

Stall(m) ==
    IF m.cycles % 2 = 1
    THEN [m EXCEPT !.stallCounter = @ + 514]
    ELSE [m EXCEPT !.stallCounter = @ + 513]

\* spec.md 4.6: the PPU's OAMDMA register write stalls the CPU for the copy
PpuWrite8(m, addr, value) ==
    LET m1 == Reached(m, "ppu", addr, value)
    IN  IF addr = \h4014 THEN Stall(m1) ELSE m1

ApuWrite8(m, addr, value) == Reached(m, "apu", addr, value)

ControllerWrite8(m, value) == Reached(m, "controller", \h4016, value)

(***************************************************************************)
(* read8, read16, read16indirect, write8: CPU.js 173-230.                  *)
(***************************************************************************)
\* read8's dispatch: the peer asked, the address it was asked for and the
\* value returned ("none": the CPU answered by itself)
Answer(peer, addr, val) == [peer |-> peer, addr |-> addr, val |-> val]

\* read8 as it would be handing the PPU the address unmirrored
Read8Dispatch_NoMirror(m, r, addr) ==
    IF addr < \h2000 THEN Answer("ram", addr, RamRead8(m, addr))
    ELSE IF addr < \h4000 THEN Answer("ppu", addr, PpuRead8(addr))
    ELSE IF addr = \h4014 THEN Answer("ppu", addr, PpuRead8(addr))
    ELSE IF addr = \h4015 THEN Answer("apu", addr, ApuRead8)
    ELSE IF addr = \h4016 THEN Answer("controller", addr, ControllerRead8)
    ELSE IF addr = \h4017 THEN Answer("none", addr, 0)
    ELSE IF addr < \h6000 THEN Answer("none", addr, 0)
    ELSE Answer("mapper", addr, MapperRead8(r, addr))

Read8Dispatch(m, r, addr) ==
    IF addr < \h2000 THEN Answer("ram", addr, RamRead8(m, addr))
    ELSE IF addr < \h4000
        THEN Answer("ppu", \h2000 + (addr % 8), PpuRead8(\h2000 + (addr % 8)))
    ELSE IF addr = \h4014 THEN Answer("ppu", addr, PpuRead8(addr))
    ELSE IF addr = \h4015 THEN Answer("apu", addr, ApuRead8)
    ELSE IF addr = \h4016 THEN Answer("controller", addr, ControllerRead8)
    ELSE IF addr = \h4017 THEN Answer("none", addr, 0)
    ELSE IF addr < \h6000 THEN Answer("none", addr, 0)
    ELSE Answer("mapper", addr, MapperRead8(r, addr))

Read8(m, r, addr) == Read8Dispatch(m, r, addr).val

Read16(m, r, addr) ==
    BitOr(Shl(Read8(m, r, addr + 1), 8), Read8(m, r, addr))

\* read16indirect as it would be without the page wrap: read16
Read16Indirect_NextPage(m, r, addr) ==
    BitOr(Shl(Read8(m, r, addr + 1), 8), Read8(m, r, addr))

Read16Indirect(m, r, addr) ==
    LET addr2 == BitOr(BitAnd(addr, \hFF00), AndFF(BitAnd(addr, \hFF) + 1))
        lo == Read8(m, r, addr)
        hi == Read8(m, r, addr2)
    IN  BitOr(Shl(hi, 8), lo)

\* write8 as it would be with $4017 handed to the APU
Write8_FrameCounter(m, addr, value) ==
    IF addr < \h2000 THEN RamWrite8(m, addr, value)
    ELSE IF addr < \h4000 THEN PpuWrite8(m, \h2000 + (addr % 8), value)
    ELSE IF addr = \h4014 THEN PpuWrite8(m, \h4014, value)
    ELSE IF addr = \h4015 THEN ApuWrite8(m, addr, value)
    ELSE IF addr = \h4016 THEN ControllerWrite8(m, value)
    ELSE IF addr = \h4017 THEN ApuWrite8(m, addr, value)
    ELSE IF addr >= \h6000 THEN MapperWrite8(m, addr, value)
    ELSE m

\* write8 as it would be without the branch for the OAMDMA register
Write8_NoDma(m, addr, value) ==
    IF addr < \h2000 THEN RamWrite8(m, addr, value)
    ELSE IF addr < \h4000 THEN PpuWrite8(m, \h2000 + (addr % 8), value)
    ELSE IF addr = \h4015 THEN ApuWrite8(m, addr, value)
    ELSE IF addr = \h4016 THEN ControllerWrite8(m, value)
    ELSE IF addr = \h4017 THEN m
    ELSE IF addr >= \h6000 THEN MapperWrite8(m, addr, value)
    ELSE m

Write8(m, addr, value) ==
    IF addr < \h2000 THEN RamWrite8(m, addr, value)
    ELSE IF addr < \h4000 THEN PpuWrite8(m, \h2000 + (addr % 8), value)
    ELSE IF addr = \h4014 THEN PpuWrite8(m, \h4014, value)
    ELSE IF addr = \h4015 THEN ApuWrite8(m, addr, value)
    ELSE IF addr = \h4016 THEN ControllerWrite8(m, value)
    ELSE IF addr = \h4017 THEN m
    ELSE IF addr >= \h6000 THEN MapperWrite8(m, addr, value)
    ELSE m

(***************************************************************************)
(* Stack methods: CPU.js 236-256.  Fields of the record observe the call   *)
(* in progress and are no state of the program: `writes`, in order the     *)
(* index and the value of every store into memory.stack; `reads`, in       *)
(* order the index of every load from it; `val`, the value returned.       *)
(***************************************************************************)
\* stackPush8 as it would be without the mask on sp
StackPush8_NoWrap(m, value) ==
    [m EXCEPT !.stack[m.sp] = StackStore(value),
              !.writes = Append(@, <<m.sp, value>>),
              !.sp = m.sp - 1]

StackPush8(m, value) ==
    [m EXCEPT !.stack[m.sp] = StackStore(value),
              !.writes = Append(@, <<m.sp, value>>),
              !.sp = AndFF(m.sp - 1)]

\* stackPush16 as it would be pushing the low byte first
StackPush16_LowFirst(m, value) ==
    StackPush8(StackPush8(m, BitAnd(value, \hFF)), Shr(value, 8))

StackPush16(m, value) ==
    StackPush8(StackPush8(m, Shr(value, 8)), BitAnd(value, \hFF))

\* stackPull8 as it would be reading before it moves sp
StackPull8_ReadsFirst(m) ==
    [m EXCEPT !.sp = AndFF(m.sp + 1),
              !.reads = Append(@, m.sp),
              !.val = m.stack[m.sp]]

StackPull8(m) ==
    LET at == AndFF(m.sp + 1)
    IN  [m EXCEPT !.sp = at,
                  !.reads = Append(@, at),
                  !.val = m.stack[at]]

\* this.stackPull8() | ( this.stackPull8() << 8 ): the left operand is pulled first
StackPull16(m) ==
    LET m1 == StackPull8(m)
        m2 == StackPull8(m1)
    IN  [m2 EXCEPT !.val = BitOr(m1.val, Shl(m2.val, 8))]

(***************************************************************************)
(* Flag methods: CPU.js 262-301.                                           *)
(***************************************************************************)
SetZeroFlag(m, value) ==
    IF value = 0 THEN [m EXCEPT !.z = 1] ELSE [m EXCEPT !.z = 0]

\* setNegativeFlag as it would be storing the masked bit itself
SetNegativeFlag_RawBit(m, value) == [m EXCEPT !.n = BitAnd(value, \h80)]

SetNegativeFlag(m, value) ==
    IF BitAnd(value, \h80) # 0 THEN [m EXCEPT !.n = 1] ELSE [m EXCEPT !.n = 0]

GetFlags(m) ==
    LET f0 == BitOr(0, Shl(m.c, 0))
        f1 == BitOr(f0, Shl(m.z, 1))
        f2 == BitOr(f1, Shl(m.i, 2))
        f3 == BitOr(f2, Shl(m.d, 3))
        f4 == BitOr(f3, Shl(0, 4))
        f5 == BitOr(f4, Shl(1, 5))
        f6 == BitOr(f5, Shl(m.v, 6))
        f7 == BitOr(f6, Shl(m.n, 7))
    IN  f7

\* setFlags as it would be if it only raised flags, never cleared them
SetFlags_OnlySets(m, value) ==
    [m EXCEPT !.c = BitOr(@, BitAnd(Shr(value, 0), 1)),
              !.z = BitOr(@, BitAnd(Shr(value, 1), 1)),
              !.i = BitOr(@, BitAnd(Shr(value, 2), 1)),
              !.d = BitOr(@, BitAnd(Shr(value, 3), 1)),
              !.v = BitOr(@, BitAnd(Shr(value, 6), 1)),
              !.n = BitOr(@, BitAnd(Shr(value, 7), 1))]

SetFlags(m, value) ==
    [m EXCEPT !.c = BitAnd(Shr(value, 0), 1),
              !.z = BitAnd(Shr(value, 1), 1),
              !.i = BitAnd(Shr(value, 2), 1),
              !.d = BitAnd(Shr(value, 3), 1),
              !.v = BitAnd(Shr(value, 6), 1),
              !.n = BitAnd(Shr(value, 7), 1)]

(***************************************************************************)
(* The CPU after its constructor: CPU.js 24-66.  The interrupt latch holds *)
(* "null" or a tag of INTERRUPTS.                                          *)
(***************************************************************************)
NewCPU ==
    [cycles |-> 0, b |-> 0, pc |-> 0, sp |-> 0,
     a |-> 0, x |-> 0, y |-> 0,
     c |-> 0, z |-> 0, i |-> 0, d |-> 0, v |-> 0, n |-> 0,
     interrupt |-> "null", stallCounter |-> 0,
     stack |-> [k \in Byte |-> 0],
     writes |-> <<>>, reads |-> <<>>, io |-> <<>>,
     val |-> Undefined, fetched |-> 0]

\* a call starts with nothing observed
Enter(m) ==
    [m EXCEPT !.writes = <<>>, !.reads = <<>>, !.io = <<>>,
              !.val = Undefined, !.fetched = 0]

\* the program's state: the record without the observation fields
State(m) ==
    [f \in DOMAIN m \ {"writes", "reads", "io", "val", "fetched"} |-> m[f]]

(***************************************************************************)
(* reset(): CPU.js 86-96.                                                  *)
(***************************************************************************)
\* reset() as it would be with the stall counter left alone
Reset_KeepsStall(m, r) ==
    LET m1 == [m EXCEPT !.cycles = 0, !.a = 0, !.x = 0, !.y = 0,
                        !.interrupt = "null"]
        m2 == [m1 EXCEPT !.pc = Read16(m1, r, \hFFFC)]
        m3 == [m2 EXCEPT !.sp = \hFD]
    IN  SetFlags(m3, \h24)

Reset(m, r) ==
    LET m1 == [m EXCEPT !.cycles = 0, !.a = 0, !.x = 0, !.y = 0,
                        !.interrupt = "null", !.stallCounter = 0]
        m2 == [m1 EXCEPT !.pc = Read16(m1, r, \hFFFC)]
        m3 == [m2 EXCEPT !.sp = \hFD]
    IN  SetFlags(m3, \h24)

(***************************************************************************)
(* triggerNMI(): CPU.js 159-161.                                           *)
(***************************************************************************)
\* triggerNMI() as it would be latching a tag tick() has no case for
TriggerNMI_OtherTag(m) == [m EXCEPT !.interrupt = "IRQ"]

TriggerNMI(m) == [m EXCEPT !.interrupt = "NMI"]

(***************************************************************************)
(* The instruction, mode and opcode tables (instructions.js, modes.js,     *)
(* opcodes.js: not part of CPU.js).  The model carries the seven           *)
(* instructions the cartridge images use, with the sizes and base cycles   *)
(* of the 6502 reference (spec.md 4.2-4.4); a byte outside the table is    *)
(* not executed by the model.                                              *)
(***************************************************************************)
Instructions ==
       (\hEA :> <<"NOP", "implied", 1, 2>>)
    @@ (\hA9 :> <<"LDA", "immediate", 2, 2>>)
    @@ (\h8D :> <<"STA", "absolute", 3, 4>>)
    @@ (\h4C :> <<"JMP", "absolute", 3, 3>>)
    @@ (\h40 :> <<"RTI", "implied", 1, 6>>)
    @@ (\hA2 :> <<"LDX", "immediate", 2, 2>>)
    @@ (\h9D :> <<"STA", "absoluteX", 3, 5>>)

\* the operand address, and the CPU with the branch counter the mode leaves;
\* tick() calls the mode with pc still at the opcode byte
Modes(mode, m, r) ==
    CASE mode = "implied" -> [addr |-> 0, m |-> m]
      [] mode = "immediate" -> [addr |-> m.pc + 1, m |-> m]
      [] mode = "absolute" -> [addr |-> Read16(m, r, m.pc + 1), m |-> m]
      [] mode = "absoluteX" ->
            LET base == Read16(m, r, m.pc + 1)
                eff == base + m.x
            IN  [addr |-> eff,
                 m |-> IF BitAnd(base, \hFF00) # BitAnd(eff, \hFF00)
                       THEN [m EXCEPT !.b = 1] ELSE m]

Opcodes(opCode, addr, m, r) ==
    CASE opCode = "NOP" -> m
      [] opCode = "LDA" ->
            LET m1 == [m EXCEPT !.a = Read8(m, r, addr)]
            IN  SetNegativeFlag(SetZeroFlag(m1, m1.a), m1.a)
      [] opCode = "LDX" ->
            LET m1 == [m EXCEPT !.x = Read8(m, r, addr)]
            IN  SetNegativeFlag(SetZeroFlag(m1, m1.x), m1.x)
      [] opCode = "STA" -> Write8(m, addr, m.a)
      [] opCode = "JMP" -> [m EXCEPT !.pc = addr]
      [] opCode = "RTI" ->
            LET m1 == StackPull8(m)
                m2 == SetFlags(m1, m1.val)
                m3 == StackPull16(m2)
            IN  [m3 EXCEPT !.pc = m3.val]

(***************************************************************************)
(* tick(): CPU.js 98-154, one operator for each of its three paths.  Each  *)
(* yields the CPU after the call, `val` holding the value returned.        *)
(***************************************************************************)
\* lines 99-100
TickEnter(m) == [Enter(m) EXCEPT !.b = 0]

\* the stalled path as it would be if a stalled tick dropped the latch
TickStall_DropsLatch(m) ==
    LET m1 == TickEnter(m)
    IN  [m1 EXCEPT !.stallCounter = @ - 1, !.interrupt = "null", !.val = 0]

\* the stalled path as it would be if a stalled tick counted as a cycle
TickStall_CountsCycle(m) ==
    LET m1 == TickEnter(m)
    IN  [m1 EXCEPT !.stallCounter = @ - 1, !.cycles = @ + 1, !.val = 0]

\* lines 103-109: stalled after PPU OAMDMA
TickStall(m) ==
    LET m1 == TickEnter(m)
    IN  [m1 EXCEPT !.stallCounter = @ - 1, !.val = 0]

\* the interrupt path as it would be if it pushed the flags as PHP does, B set
TickInterrupt_PushesB(m, r) ==
    LET m0 == TickEnter(m)
        m5 == IF m0.interrupt = "NMI"
              THEN LET m1 == StackPush16(m0, m0.pc)
                       m2 == StackPush8(m1, BitOr(GetFlags(m1), \h10))
                       m3 == [m2 EXCEPT !.pc = Read16(m2, r, \hFFFA)]
                       m4 == [m3 EXCEPT !.i = 1]
                   IN  [m4 EXCEPT !.cycles = @ + 7]
              ELSE m0
    IN  [m5 EXCEPT !.interrupt = "null", !.val = 7]

\* the interrupt path as it would be if it set cycles to 7 instead of adding
TickInterrupt_AssignsCycles(m, r) ==
    LET m0 == TickEnter(m)
        m5 == IF m0.interrupt = "NMI"
              THEN LET m1 == StackPush16(m0, m0.pc)
                       m2 == StackPush8(m1, AndNot(GetFlags(m1), \h10))
                       m3 == [m2 EXCEPT !.pc = Read16(m2, r, \hFFFA)]
                       m4 == [m3 EXCEPT !.i = 1]
                   IN  [m4 EXCEPT !.cycles = 7]
              ELSE m0
    IN  [m5 EXCEPT !.interrupt = "null", !.val = 7]

\* lines 112-132: a latched interrupt
TickInterrupt(m, r) ==
    LET m0 == TickEnter(m)
        m5 == IF m0.interrupt = "NMI"
              THEN LET m1 == StackPush16(m0, m0.pc)
                       m2 == StackPush8(m1, AndNot(GetFlags(m1), \h10))
                       m3 == [m2 EXCEPT !.pc = Read16(m2, r, \hFFFA)]
                       m4 == [m3 EXCEPT !.i = 1]
                   IN  [m4 EXCEPT !.cycles = @ + 7]
              ELSE m0
    IN  [m5 EXCEPT !.interrupt = "null", !.val = 7]

\* lines 134-153: fetch, decode, execute
InstrCode(m, r) == Read8(m, r, m.pc)

TickInstr(m, r) ==
    LET m0 == [TickEnter(m) EXCEPT !.fetched = 1]
        instr == Instructions[InstrCode(m0, r)]
        mode == Modes(instr[2], m0, r)
        m1 == [mode.m EXCEPT !.pc = @ + instr[3]]
        m2 == [m1 EXCEPT !.cycles = @ + instr[4]]
        m3 == Opcodes(instr[1], mode.addr, m2, r)
    IN  [m3 EXCEPT !.val = m3.cycles - m.cycles]

(***************************************************************************)
(* The console: a CPU wired to a cartridge, driven through reset(),        *)
(* triggerNMI() (the PPU at vblank) and tick() (the scheduler).            *)
(***************************************************************************)
Init ==
    /\ cpu = NewCPU
    /\ rom \in Roms
    /\ last = "new"
    /\ arg = Undefined
    /\ sp0 = NewCPU.sp
    /\ nops = 0

DoReset ==
    /\ nops < MaxResets
    /\ cpu' = Reset(Enter(cpu), rom)
    /\ last' = "reset"
    /\ nops' = nops + 1
    /\ UNCHANGED <<rom, arg, sp0>>

DoTriggerNMI ==
    /\ cpu' = TriggerNMI(Enter(cpu))
    /\ last' = "triggerNMI"
    /\ UNCHANGED <<rom, arg, sp0, nops>>

DoTickStall ==
    /\ cpu.stallCounter > 0
    /\ cpu' = TickStall(cpu)
    /\ last' = "tickStall"
    /\ UNCHANGED <<rom, arg, sp0, nops>>

DoTickInterrupt ==
    /\ ~(cpu.stallCounter > 0)
    /\ cpu.interrupt # "null"
    /\ cpu.cycles < MaxCycles
    /\ cpu' = TickInterrupt(cpu, rom)
    /\ last' = "tickInterrupt"
    /\ UNCHANGED <<rom, arg, sp0, nops>>

\* tick() as it would be if it executed instructions while stalled
DoTickInstr_WhileStalled ==
    /\ cpu.interrupt = "null"
    /\ cpu.cycles < MaxCycles
    /\ InstrCode(cpu, rom) \in DOMAIN Instructions
    /\ cpu' = TickInstr(cpu, rom)
    /\ last' = "tickInstr"
    /\ UNCHANGED <<rom, arg, sp0, nops>>

DoTickInstr ==
    /\ ~(cpu.stallCounter > 0)
    /\ cpu.interrupt = "null"
    /\ cpu.cycles < MaxCycles
    /\ InstrCode(cpu, rom) \in DOMAIN Instructions
    /\ cpu' = TickInstr(cpu, rom)
    /\ last' = "tickInstr"
    /\ UNCHANGED <<rom, arg, sp0, nops>>

Next ==
    \/ DoReset
    \/ DoTriggerNMI
    \/ DoTickStall
    \/ DoTickInterrupt
    \/ DoTickInstr

Spec == Init /\ [][Next]_vars

(***************************************************************************)
(* Properties of the console.                                              *)
(***************************************************************************)
TickPaths == {"tickStall", "tickInterrupt", "tickInstr"}

\* the flags byte with B = 0 and U = 1, bit by bit
FlagsByte(m) ==
    m.c + 2 * m.z + 4 * m.i + 8 * m.d + 32 + 64 * m.v + 128 * m.n

\* the little-endian word the mapper holds at a vector
Vector(r, addr) == MapperRead8(r, addr) + 256 * MapperRead8(r, addr + 1)

\* C1: a tick() taken with the NMI latch set and the stall counter at 0
\* stores pc's high byte at stack[sp], then pc's low byte at stack[sp - 1],
\* then the flags byte with B = 0 and U = 1 at stack[sp - 2]; it sets I,
\* loads pc from the vector at $FFFA, adds 7 to cycles, clears the latch,
\* returns 7, leaves sp 3 lower modulo 256 and fetches no instruction.
C1_NmiService ==
    [][(cpu.interrupt = "NMI" /\ cpu.stallCounter = 0 /\ last' \in TickPaths)
        => /\ Len(cpu'.writes) = 3
           /\ cpu'.writes[1][1] = cpu.sp
           /\ cpu'.writes[2][1] = (cpu.sp - 1) % 256
           /\ cpu'.writes[3][1] = (cpu.sp - 2) % 256
           /\ cpu'.stack[cpu.sp] = (cpu.pc \div 256) % 256
           /\ cpu'.stack[(cpu.sp - 1) % 256] = cpu.pc % 256
           /\ cpu'.stack[(cpu.sp - 2) % 256] = FlagsByte(cpu)
           /\ (cpu'.stack[(cpu.sp - 2) % 256] \div 16) % 4 = 2
           /\ cpu'.i = 1
           /\ cpu'.pc = Vector(rom, 65530)
           /\ cpu'.cycles = cpu.cycles + 7
           /\ cpu'.interrupt = "null"
           /\ cpu'.val = 7
           /\ cpu'.sp = (cpu.sp - 3) % 256
           /\ cpu'.fetched = 0]_vars

\* an NMI serviced in the middle of a program, the flags pushed with N set
C1_Witness ==
    /\ last = "tickInterrupt"
    /\ cpu.sp = 250
    /\ cpu.cycles > 7
    /\ cpu.stack[251] >= 128
    /\ cpu.pc = Vector(rom, 65530)

\* C2: a tick() taken with the stall counter above 0 lowers it by exactly 1
\* and returns 1.
C2_StallTickReturnsOne ==
    [][(cpu.stallCounter > 0 /\ last' \in TickPaths)
        => /\ cpu'.stallCounter = cpu.stallCounter - 1
           /\ cpu'.val = 1]_vars

\* C3: a tick() taken with the stall counter above 0 changes nothing of the
\* CPU and of the stack but the stall counter, which it lowers by 1, and
\* the branch counter, which it resets to 0; it stores nothing and fetches
\* nothing, so n such ticks pass before an instruction or an interrupt is
\* processed.
C3_StallTickFrame ==
    [][(cpu.stallCounter > 0 /\ last' \in TickPaths)
        => /\ State(cpu') = [State(cpu) EXCEPT !.stallCounter = @ - 1, !.b = 0]
           /\ cpu'.writes = <<>>
           /\ cpu'.reads = <<>>
           /\ cpu'.fetched = 0]_vars

\* a stall tick taken with the branch counter set and an NMI latched
C3_Witness ==
    /\ last = "tickStall"
    /\ cpu.stallCounter = 513
    /\ cpu.interrupt = "NMI"
    /\ cpu.x = 255
    /\ cpu.b = 0

\* C4: after reset(), from any state, sp = $FD, the flags are I alone (the
\* flags byte is $24), pc is the word at $FFFC, the latch is clear and the
\* stall counter 0; the tick() that follows fetches an instruction.
C4_Reset ==
    [][/\ last' = "reset"
          => /\ cpu'.sp = 253
             /\ <<cpu'.c, cpu'.z, cpu'.i, cpu'.d, cpu'.v, cpu'.n>>
                    = <<0, 0, 1, 0, 0, 0>>
             /\ FlagsByte(cpu') = 36
             /\ cpu'.pc = Vector(rom, 65532)
             /\ cpu'.interrupt = "null"
             /\ cpu'.stallCounter = 0
       /\ (last = "reset" /\ last' \in TickPaths)
          => /\ last' = "tickInstr"
             /\ cpu'.fetched = 1]_vars

\* a second reset(), after a run that left an NMI frame on the stack
C4_Witness ==
    /\ last = "reset"
    /\ nops = 2
    /\ cpu.stack[253] # 0
    /\ cpu.sp = 253

\* C5: pc stays in [0, 65535], and every byte an NMI pushes is in [0, 255].
C5_PcSixteenBits ==
    /\ cpu.pc \in 0..65535
    /\ \A k \in 1..Len(cpu.writes) : cpu.writes[k][2] \in Byte

(***************************************************************************)
(* The stack methods on their own.  sp is any byte (the program moves it   *)
(* with pushes and pulls); SpecWrap pushes a run of bytes, SpecStack       *)
(* pushes one value and pulls it back.                                     *)
(***************************************************************************)
InitStack ==
    /\ sp0 \in Byte
    /\ cpu = [NewCPU EXCEPT !.sp = sp0]
    /\ rom = 1
    /\ last = "new"
    /\ arg = Undefined
    /\ nops = 0

WrapPush8 ==
    /\ nops < NumPushes
    /\ \E value \in {(sp0 + nops) % 256} :
          /\ cpu' = StackPush8(Enter(cpu), value)
          /\ arg' = value
    /\ last' = "stackPush8"
    /\ nops' = nops + 1
    /\ UNCHANGED <<rom, sp0>>

NextWrap == WrapPush8

SpecWrap == InitStack /\ [][NextWrap]_vars

Words == {hi * 256 + lo : hi \in {0, 1, 18, 128, 255}, lo \in {0, 1, 52, 127, 255}}

PairPush8 ==
    /\ last = "new"
    /\ \E value \in Byte :
          /\ cpu' = StackPush8(Enter(cpu), value)
          /\ arg' = value
    /\ last' = "stackPush8"
    /\ nops' = nops + 1
    /\ UNCHANGED <<rom, sp0>>

PairPull8 ==
    /\ last = "stackPush8"
    /\ cpu' = StackPull8(Enter(cpu))
    /\ last' = "stackPull8"
    /\ nops' = nops + 1
    /\ UNCHANGED <<rom, arg, sp0>>

PairPush16 ==
    /\ last = "new"
    /\ \E value \in Words :
          /\ cpu' = StackPush16(Enter(cpu), value)
          /\ arg' = value
    /\ last' = "stackPush16"
    /\ nops' = nops + 1
    /\ UNCHANGED <<rom, sp0>>

PairPull16 ==
    /\ last = "stackPush16"
    /\ cpu' = StackPull16(Enter(cpu))
    /\ last' = "stackPull16"
    /\ nops' = nops + 1
    /\ UNCHANGED <<rom, arg, sp0>>

NextStack ==
    \/ PairPush8
    \/ PairPull8
    \/ PairPush16
    \/ PairPull16

SpecStack == InitStack /\ [][NextStack]_vars

\* C6, as stated: after 257 bytes pushed from any sp, sp is back at its
\* first value.
C6_WrapAfter257 == (nops = 257) => (cpu.sp = sp0)

\* C6, amended: sp is back at its first value after 256 bytes pushed, not
\* before, and the 257th push leaves it one below, modulo 256.
C6_WrapAfter256 ==
    /\ (nops = 256) => (cpu.sp = sp0)
    /\ (nops \in 1..255) => (cpu.sp # sp0)
    /\ (nops = 257) => (cpu.sp = (sp0 - 1) % 256)

\* 256 bytes pushed from sp = 0: the first push wrapped to $FF
C6_Witness ==
    /\ nops = 256
    /\ sp0 = 0
    /\ cpu.sp = 0
    /\ last = "stackPush8"
    /\ cpu.stack[1] = 255

\* C9: stackPull8() after stackPush8(v) returns v and leaves sp where it
\* was before the push, for every byte v and every sp.
C9_Push8Pull8 ==
    (last = "stackPull8") => (cpu.val = arg /\ cpu.sp = sp0)

\* a byte pushed at sp = 0, where the push wraps to $FF, and pulled back
C9_Witness ==
    /\ last = "stackPull8"
    /\ sp0 = 0
    /\ arg = 165
    /\ cpu.val = 165
    /\ cpu.stack[0] = 165

\* C10: stackPush16(w) stores the high byte of w at stack[sp] and the low
\* byte at stack[sp - 1]; stackPull16() then reads the low byte first,
\* returns w and leaves sp where it was before the push.
C10_Push16Pull16 ==
    /\ (last = "stackPush16")
          => /\ cpu.stack[sp0] = arg \div 256
             /\ cpu.stack[(sp0 - 1) % 256] = arg % 256
             /\ cpu.sp = (sp0 - 2) % 256
    /\ (last = "stackPull16")
          => /\ cpu.val = arg
             /\ cpu.sp = sp0
             /\ cpu.reads = <<(sp0 - 1) % 256, sp0>>

\* a word pushed at sp = 0: high byte at $00, low byte at $FF
C10_Witness ==
    /\ last = "stackPull16"
    /\ sp0 = 0
    /\ arg = 4660
    /\ cpu.stack[0] = 18
    /\ cpu.stack[255] = 52

(***************************************************************************)
(* The flag methods on their own: setFlags(v), then getFlags(), from       *)
(* every combination of the six flags.                                     *)
(***************************************************************************)
InitFlags ==
    /\ \E fc \in Bit, fz \in Bit, fi \in Bit, fd \in Bit, fv \in Bit, fn \in Bit :
          cpu = [NewCPU EXCEPT !.c = fc, !.z = fz, !.i = fi,
                               !.d = fd, !.v = fv, !.n = fn]
    /\ rom = 1
    /\ last = "new"
    /\ arg = Undefined
    /\ sp0 = NewCPU.sp
    /\ nops = 0

FlagsSet ==
    /\ \E value \in Byte :
          /\ cpu' = SetFlags(Enter(cpu), value)
          /\ arg' = value
    /\ last' = "setFlags"
    /\ UNCHANGED <<rom, sp0, nops>>

FlagsGet ==
    /\ last = "setFlags"
    /\ cpu' = [Enter(cpu) EXCEPT !.val = GetFlags(cpu)]
    /\ last' = "getFlags"
    /\ UNCHANGED <<rom, arg, sp0, nops>>

NextFlags ==
    \/ FlagsSet
    \/ FlagsGet

SpecFlags == InitFlags /\ [][NextFlags]_vars

\* bit k of a byte
BitOf(value, k) == (value \div (2 ^ k)) % 2

\* C8: getFlags() after setFlags(v) returns (v & $CF) | $20 whatever the
\* flags were before: each of C, Z, I, D, V, N is the bit of v at its
\* place, B reads 0 and U reads 1.
C8_FlagsRoundTrip ==
    /\ (last = "setFlags")
          => <<cpu.c, cpu.z, cpu.i, cpu.d, cpu.v, cpu.n>>
                = <<BitOf(arg, 0), BitOf(arg, 1), BitOf(arg, 2),
                    BitOf(arg, 3), BitOf(arg, 6), BitOf(arg, 7)>>
    /\ (last = "getFlags")
          => /\ cpu.val = arg - 16 * BitOf(arg, 4) + 32 * (1 - BitOf(arg, 5))
             /\ BitOf(cpu.val, 4) = 0
             /\ BitOf(cpu.val, 5) = 1

\* setFlags($10) read back as $20: every flag cleared, B dropped, U forced
C8_Witness ==
    /\ last = "getFlags"
    /\ arg = 16
    /\ cpu.val = 32
    /\ cpu.i = 0
    /\ cpu.d = 0

(***************************************************************************)
(* Sequences of the CPU's methods, from the constructed CPU (sp = 0).      *)
(* An NMI service is triggerNMI() followed by the tick() that takes it.    *)
(***************************************************************************)
InitOps ==
    /\ cpu = NewCPU
    /\ rom \in {1, 2}
    /\ last = "new"
    /\ arg = Undefined
    /\ sp0 = NewCPU.sp
    /\ nops = 0

OpReset ==
    /\ nops < MaxOps
    /\ cpu' = Reset(Enter(cpu), rom)
    /\ last' = "reset"
    /\ nops' = nops + 1
    /\ UNCHANGED <<rom, arg, sp0>>

OpStackPush8 ==
    /\ nops < MaxOps
    /\ \E value \in {0, 128, 255} :
          /\ cpu' = StackPush8(Enter(cpu), value)
          /\ arg' = value
    /\ last' = "stackPush8"
    /\ nops' = nops + 1
    /\ UNCHANGED <<rom, sp0>>

OpStackPush16 ==
    /\ nops < MaxOps
    /\ \E value \in {0, 4660, 65535} :
          /\ cpu' = StackPush16(Enter(cpu), value)
          /\ arg' = value
    /\ last' = "stackPush16"
    /\ nops' = nops + 1
    /\ UNCHANGED <<rom, sp0>>

OpStackPull8 ==
    /\ nops < MaxOps
    /\ cpu' = StackPull8(Enter(cpu))
    /\ last' = "stackPull8"
    /\ nops' = nops + 1
    /\ UNCHANGED <<rom, arg, sp0>>

OpStackPull16 ==
    /\ nops < MaxOps
    /\ cpu' = StackPull16(Enter(cpu))
    /\ last' = "stackPull16"
    /\ nops' = nops + 1
    /\ UNCHANGED <<rom, arg, sp0>>

OpSetFlags ==
    /\ nops < MaxOps
    /\ \E value \in {0, 36, 195, 255} :
          /\ cpu' = SetFlags(Enter(cpu), value)
          /\ arg' = value
    /\ last' = "setFlags"
    /\ nops' = nops + 1
    /\ UNCHANGED <<rom, sp0>>

OpSetZeroFlag ==
    /\ nops < MaxOps
    /\ \E value \in {0, 1, 256} :
          /\ cpu' = SetZeroFlag(Enter(cpu), value)
          /\ arg' = value
    /\ last' = "setZeroFlag"
    /\ nops' = nops + 1
    /\ UNCHANGED <<rom, sp0>>

OpSetNegativeFlag ==
    /\ nops < MaxOps
    /\ \E value \in {0, 127, 128, 384} :
          /\ cpu' = SetNegativeFlag(Enter(cpu), value)
          /\ arg' = value
    /\ last' = "setNegativeFlag"
    /\ nops' = nops + 1
    /\ UNCHANGED <<rom, sp0>>

OpServiceNMI ==
    /\ nops < MaxOps
    /\ ~(cpu.stallCounter > 0)
    /\ cpu' = TickInterrupt(TriggerNMI(Enter(cpu)), rom)
    /\ last' = "tickInterrupt"
    /\ nops' = nops + 1
    /\ UNCHANGED <<rom, arg, sp0>>

NextOps ==
    \/ OpReset
    \/ OpStackPush8
    \/ OpStackPush16
    \/ OpStackPull8
    \/ OpStackPull16
    \/ OpSetFlags
    \/ OpSetZeroFlag
    \/ OpSetNegativeFlag
    \/ OpServiceNMI

SpecOps == InitOps /\ [][NextOps]_vars

\* C7: whatever sequence of reset, pushes, pulls, flag setters and NMI
\* services ran, sp is in [0, 255], each flag is 0 or 1, and every store
\* into the stack went to an index in [0, 255] of the 256-byte stack page.
C7_StackAndFlagsInRange ==
    /\ cpu.sp \in Byte
    /\ \A f \in {"c", "z", "i", "d", "v", "n"} : cpu[f] \in Bit
    /\ \A k \in 1..Len(cpu.writes) : cpu.writes[k][1] \in Byte
    /\ DOMAIN cpu.stack = Byte

\* an NMI serviced from sp = 1: stores at 1, 0 and 255, sp left at 254
C7_Witness ==
    /\ last = "tickInterrupt"
    /\ Len(cpu.writes) = 3
    /\ cpu.writes[1][1] = 1
    /\ cpu.writes[3][1] = 255
    /\ cpu.sp = 254

(***************************************************************************)
(* The CPU driven through all four of its public operations: the console   *)
(* above, and stall() called from outside as well.                         *)
(***************************************************************************)
DoStall ==
    /\ cpu.stallCounter <= MaxPending
    /\ cpu.cycles < MaxCycles
    /\ cpu' = Stall(Enter(cpu))
    /\ last' = "stall"
    /\ UNCHANGED <<rom, arg, sp0, nops>>

NextPublic ==
    \/ DoReset
    \/ DoTriggerNMI
    \/ DoStall
    \/ DoTickStall
    \/ DoTickInterrupt
    \/ DoTickInstr

\* two of the cartridge images: one that never writes $4014, one that does
InitPublic == Init /\ rom \in {2, 5}

SpecPublic == InitPublic /\ [][NextPublic]_vars

\* C11: stall() adds 514 to the stall counter when cycles is odd and 513
\* when it is even, on top of what the counter held, and changes nothing
\* else of the CPU.
C11_StallAdds ==
    [][(last' = "stall")
        => LET more == IF (cpu.cycles + 1) % 2 = 0 THEN 514 ELSE 513
           IN  /\ cpu'.stallCounter = cpu.stallCounter + more
               /\ State(cpu') = [State(cpu) EXCEPT !.stallCounter = @ + more]
               /\ cpu'.io = <<>>
               /\ cpu'.writes = <<>>]_vars

\* stall() called at an odd cycle count with one stalled tick still to go
C11_Witness ==
    /\ last = "stall"
    /\ cpu.cycles % 2 = 1
    /\ cpu.stallCounter = 515

\* the address an instruction is about to store to, if it is a store
StoreTarget(m, r) ==
    LET code == InstrCode(m, r)
    IN  IF code \in DOMAIN Instructions /\ Instructions[code][1] = "STA"
        THEN Modes(Instructions[code][2], m, r).addr
        ELSE Undefined

\* C12: an instruction's write8 to $4014 reaches the PPU, at $4014 and
\* with the value written, and stalls the CPU: the stall counter is 513 or
\* 514 higher after it, and the tick() that follows is a stalled one.
C12_DmaWriteStalls ==
    [][/\ (last' = "tickInstr" /\ StoreTarget(cpu, rom) = 16404)
          => /\ cpu'.io = << <<"ppu", 16404, cpu.a>> >>
             /\ cpu'.stallCounter - cpu.stallCounter \in {513, 514}
       /\ (last = "tickInstr" /\ cpu.io # <<>> /\ cpu.io[1][2] = 16404
             /\ last' \in TickPaths)
          => /\ last' = "tickStall"
             /\ cpu'.fetched = 0]_vars

\* the first stalled tick after STA $4014 wrote 2 to the PPU
C12_Witness ==
    /\ last = "tickStall"
    /\ rom = 1
    /\ cpu.a = 2
    /\ cpu.stallCounter = 512
    /\ cpu.pc = 32773

\* C13: no tick(), stalled, servicing an NMI or executing an instruction,
\* lowers the cycles counter; only reset() does.
C13_CyclesMonotonic ==
    [][(last' \in TickPaths \/ last' = "triggerNMI")
        => cpu'.cycles >= cpu.cycles]_vars

\* a stall run out after an NMI service, its return and the program's DMA
\* write, all in one run
C13_Witness ==
    /\ last = "tickStall"
    /\ nops = 1
    /\ cpu.stallCounter = 0
    /\ cpu.cycles > 17
    /\ cpu.stack[253] # 0

(***************************************************************************)
(* The bus on its own: one read8, write8 or read16indirect at any 16-bit   *)
(* address, on the constructed CPU and on the CPU after an NMI service     *)
(* (an odd cycle count, a used stack).                                     *)
(***************************************************************************)
Addrs == 0..65535

InitBus ==
    /\ rom \in {1, 2}
    /\ cpu \in {NewCPU, TickInterrupt(TriggerNMI(NewCPU), rom)}
    /\ last = "new"
    /\ arg = Undefined
    /\ sp0 = NewCPU.sp
    /\ nops = 0

BusRead8 ==
    /\ last = "new"
    /\ \E addr \in Addrs :
          LET d == Read8Dispatch(cpu, rom, addr)
          IN  /\ cpu' = [Enter(cpu) EXCEPT
                            !.val = d.val,
                            !.io = IF d.peer = "none" THEN <<>>
                                   ELSE << <<d.peer, d.addr, d.val>> >>]
              /\ arg' = addr
    /\ last' = "read8"
    /\ nops' = nops + 1
    /\ UNCHANGED <<rom, sp0>>

BusWrite8 ==
    /\ last = "new"
    /\ \E addr \in Addrs, value \in {165} :
          /\ cpu' = Write8(Enter(cpu), addr, value)
          /\ arg' = <<addr, value>>
    /\ last' = "write8"
    /\ nops' = nops + 1
    /\ UNCHANGED <<rom, sp0>>

BusRead16Indirect ==
    /\ last = "new"
    /\ \E addr \in Addrs :
          /\ cpu' = [Enter(cpu) EXCEPT !.val = Read16Indirect(cpu, rom, addr)]
          /\ arg' = addr
    /\ last' = "read16indirect"
    /\ nops' = nops + 1
    /\ UNCHANGED <<rom, sp0>>

NextBus ==
    \/ BusRead8
    \/ BusWrite8
    \/ BusRead16Indirect

SpecBus == InitBus /\ [][NextBus]_vars

\* C14: read16indirect(addr) is the byte at addr, plus 256 times the byte
\* at the address with addr's high byte and the low byte of addr + 1: for
\* addr = $xxFF the high byte comes from $xx00; for any other addr the
\* result is read16(addr).
C14_IndirectPageWrap ==
    (last = "read16indirect")
        => LET page == arg - (arg % 256)
               hiAt == page + ((arg + 1) % 256)
           IN  /\ cpu.val = Read8(cpu, rom, arg) + 256 * Read8(cpu, rom, hiAt)
               /\ (arg % 256 = 255) => (hiAt = page)
               /\ (arg % 256 # 255) => (cpu.val = Read16(cpu, rom, arg))

\* the pointer $80FF of image 1: low byte 0 from $80FF, high byte $A9 from
\* $8000, where $8100 holds 0
C14_Witness ==
    /\ last = "read16indirect"
    /\ rom = 1
    /\ arg = 33023
    /\ cpu.val = 43264
    /\ MapperRead8(rom, 33024) = 0

PpuWindow == 8192..16383

\* C15: a read8 or a write8 at an address a of $2000-$3FFF goes to the PPU,
\* at register address $2000 + (a mod 8), and read8(a) is what
\* read8($2000 + (a mod 8)) is.
C15_PpuMirror ==
    /\ (last = "read8" /\ arg \in PpuWindow)
          => /\ cpu.io = << <<"ppu", 8192 + (arg % 8), cpu.val>> >>
             /\ cpu.val = Read8(cpu, rom, 8192 + (arg % 8))
    /\ (last = "write8" /\ arg[1] \in PpuWindow)
          => cpu.io = << <<"ppu", 8192 + (arg[1] % 8), arg[2]>> >>

\* a write at $3FFF, the last mirror, reaches PPU register $2007
C15_Witness ==
    /\ last = "write8"
    /\ arg = <<16383, 165>>
    /\ cpu.io = << <<"ppu", 8199, 165>> >>

Reserved == (16384..16403) \cup {16407} \cup (16408..24575)

MapperWindow == 24576..65535

\* C16: at an address of $4000-$4013, at $4017 and at an address of
\* $4018-$5FFF, read8 returns 0 and asks no peer, and write8 reaches no
\* peer and changes nothing of the CPU; at an address of $6000-$FFFF both
\* go to the mapper.
C16_ReservedAndMapper ==
    [][/\ (last' = "read8" /\ arg' \in Reserved)
          => /\ cpu'.val = 0
             /\ cpu'.io = <<>>
             /\ State(cpu') = State(cpu)
       /\ (last' = "write8" /\ arg'[1] \in Reserved)
          => /\ cpu'.io = <<>>
             /\ cpu'.writes = <<>>
             /\ State(cpu') = State(cpu)
       /\ (last' = "read8" /\ arg' \in MapperWindow)
          => /\ cpu'.io = << <<"mapper", arg', cpu'.val>> >>
             /\ cpu'.val = MapperRead8(rom, arg')
       /\ (last' = "write8" /\ arg'[1] \in MapperWindow)
          => cpu'.io = << <<"mapper", arg'[1], arg'[2]>> >>]_vars

\* a write at $4017, dropped, on the CPU after an NMI service
C16_Witness ==
    /\ last = "write8"
    /\ arg = <<16407, 165>>
    /\ cpu.io = <<>>
    /\ cpu.cycles = 7
    /\ cpu.stallCounter = 0

(***************************************************************************)
(* The console's scheduler loop: n = cpu.tick(), then the PPU is advanced  *)
(* by 3n dot-cycles.                                                       *)
(***************************************************************************)
PpuDots(n) == 3 * n

\* C17: every iteration of the scheduler loop taken while the CPU is
\* stalled (tick() entered with the stall counter above 0) advances the
\* PPU by at least one dot-cycle.
C17_PpuNotStarved ==
    [][(cpu.stallCounter > 0 /\ last' \in TickPaths)
        => PpuDots(cpu'.val) >= 1]_vars

(***************************************************************************)
(* The console with a scheduler that keeps calling tick(): a tick() that   *)
(* stays on its stalled path, or on its interrupt path, is taken.          *)
(***************************************************************************)
InitLive == Init /\ rom \in {1, 3}

SpecLive ==
    /\ InitLive
    /\ [][Next]_vars
    /\ WF_vars(DoTickStall)
    /\ WF_vars(DoTickInterrupt)

\* C18: a tick() entered with the NMI latch set and the stall counter at 0
\* services the NMI and fetches no instruction; a stalled tick() leaves the
\* latch as it is; triggerNMI() on a set latch leaves it set, once; a set
\* latch is cleared by a service (or by reset()) and by nothing else, and
\* a tick() entered with the latch clear is never a service; and while
\* tick() keeps being called, a set latch leads to a service (or, if the
\* console is reset first, to that reset, which clears the latch).
C18_NmiLatchServiced ==
    /\ [][/\ (cpu.interrupt = "NMI" /\ cpu.stallCounter = 0
                 /\ last' \in TickPaths)
             => /\ last' = "tickInterrupt"
                /\ cpu'.fetched = 0
                /\ cpu'.interrupt = "null"
          /\ (cpu.stallCounter > 0 /\ last' \in TickPaths)
             => /\ last' = "tickStall"
                /\ cpu'.interrupt = cpu.interrupt
          /\ (last' = "triggerNMI")
             => /\ cpu'.interrupt = "NMI"
                /\ [State(cpu') EXCEPT !.interrupt = cpu.interrupt]
                      = State(cpu)
          /\ (cpu.interrupt = "NMI" /\ cpu'.interrupt # "NMI")
             => last' \in {"tickInterrupt", "reset"}
          /\ (cpu.interrupt = "null" /\ last' \in TickPaths)
             => last' # "tickInterrupt"]_vars
    /\ (cpu.interrupt = "NMI" /\ cpu.cycles < MaxCycles)
          ~> (cpu.interrupt = "null" /\ last \in {"tickInterrupt", "reset"})

\* image 1: the NMI latched after STA $4014 is serviced once the 513
\* stalled ticks have passed, at the instruction boundary $8005
C18_Witness ==
    /\ last = "tickInterrupt"
    /\ rom = 1
    /\ cpu.interrupt = "null"
    /\ cpu.stallCounter = 0
    /\ cpu.cycles = 13
    /\ cpu.stack[252] = 5

C20_StallBounded ==
    /\ [](cpu.stallCounter \in 0..514)
    /\ [](cpu.stallCounter < 65536)
    /\ [][(last' = "tickInstr") => cpu.stallCounter = 0]_vars

\* image 5: the second DMA, begun once the first has been waited out,
\* leaves 514 again
C20_Witness ==
    /\ last = "tickInstr"
    /\ rom = 5
    /\ cpu.cycles = 17
    /\ cpu.stallCounter = 514
    /\ cpu.io = << <<"ppu", 16404, cpu.a>> >>

====
